---- MODULE Spec2Model ----
(***************************************************************************)
(* Model of the DIP identity Merkle proof verifier of kilt-dip-primitives  *)
(* (crates/kilt-dip-primitives/src/merkle.rs): the leaf model, the leaf    *)
(* codec, the trie check and the aggregation fold of                       *)
(* verify_dip_merkle_proof.                                                *)
(*                                                                         *)
(* One behaviour is one call of verify_dip_merkle_proof.  The initial      *)
(* state holds the arguments of the call (the identity commitment, the     *)
(* proof, the two const generics and the cargo feature the crate was built *)
(* with); the actions are the steps of the function body.                  *)
(*                                                                         *)
(* The generic parameters are instantiated with scaled-down versions of    *)
(* the types the KILT runtime uses: KeyId is a fixed-width byte array,     *)
(* Web3Name a byte vector, LinkedAccountId a fixed-width byte array,       *)
(* BlockNumber and AccountId one-byte unsigned integers.                   *)
(***************************************************************************)
EXTENDS Integers, Sequences, FiniteSets, TLC

VARIABLES
    runtime_benchmarks,           \* cfg!(feature = "runtime-benchmarks")
    MAX_REVEALED_KEYS_COUNT,      \* const generic of the call
    MAX_REVEALED_ACCOUNTS_COUNT,  \* const generic of the call
    identity_commitment,          \* argument: the trusted root
    proof,                        \* argument: DidMerkleProof {blinded, revealed}
    committed,                    \* the leaf set the commitment was built over
    tamper,                       \* what was changed in the producer's proof before submission
    pc,                           \* position in the function body
    proof_leaves,                 \* local: Vec<(Vec<u8>, Option<Vec<u8>>)>
    res,                          \* local: result of verify_trie_proof
    revealed_iter,                \* local: proof.revealed.into_iter()
    keys,                         \* fold accumulator: BoundedVec of RevealedDidKey
    web3_name,                    \* fold accumulator: Option<RevealedWeb3Name>
    linked_accounts,              \* fold accumulator: BoundedVec of LinkedAccountId
    result                        \* the value the call returned

vars == <<runtime_benchmarks, MAX_REVEALED_KEYS_COUNT, MAX_REVEALED_ACCOUNTS_COUNT,
          identity_commitment, proof, committed, tamper, pc, proof_leaves, res,
          revealed_iter, keys, web3_name, linked_accounts, result>>

-----------------------------------------------------------------------------
(* Bounds of the model *)

\* longest list of revealed leaves a proof carries
MaxRevealed == 3

\* largest value of the two const generics
MaxCapacity == 2

-----------------------------------------------------------------------------
(* Option and Result *)

None == [is_some |-> FALSE]

Some(x) == [is_some |-> TRUE, value |-> x]

Ok(x) == [is_ok |-> TRUE, value |-> x]

Err(e) == [is_ok |-> FALSE, error |-> e]

Range(s) == {s[i] : i \in 1..Len(s)}

-----------------------------------------------------------------------------
(* Leaf model *)

Encryption == [variant |-> "Encryption"]

Verification(rel) == [variant |-> "Verification", rel |-> rel]

\* DidKey(DidKeyMerkleKey(KeyId, DidKeyRelationship), DidKeyMerkleValue(details))
DidKey(id, relationship, details) ==
    [kind |-> "DidKey",
     key |-> [id |-> id, relationship |-> relationship],
     value |-> [details |-> details]]

\* Web3Name(Web3NameMerkleKey(Web3Name), Web3NameMerkleValue(BlockNumber))
Web3Name(name, claimed_at) ==
    [kind |-> "Web3Name", key |-> [web3_name |-> name], value |-> [claimed_at |-> claimed_at]]

\* LinkedAccount(LinkedAccountMerkleKey(LinkedAccountId), LinkedAccountMerkleValue)
LinkedAccount(account) ==
    [kind |-> "LinkedAccount", key |-> [account |-> account], value |-> [marker |-> <<>>]]

RevealedDidKey(id, relationship, details) ==
    [id |-> id, relationship |-> relationship, details |-> details]

RevealedWeb3Name(name, claimed_at) ==
    [web3_name |-> name, claimed_at |-> claimed_at]

RevealedDidMerkleProofLeaves(did_keys, name, accounts) ==
    [did_keys |-> did_keys, web3_name |-> name, linked_accounts |-> accounts]

InvalidMerkleProof == "InvalidMerkleProof"

TooManyRevealedKeys == "TooManyRevealedKeys"

TooManyRevealedAccounts == "TooManyRevealedAccounts"

\* the conversion with the codes of the two bound errors exchanged
u8_from_reordered(value) ==
    CASE value = InvalidMerkleProof -> 0
      [] value = TooManyRevealedKeys -> 2
      [] value = TooManyRevealedAccounts -> 1

\* From<DidMerkleProofVerifierError> for u8
u8_from(value) ==
    CASE value = InvalidMerkleProof -> 0
      [] value = TooManyRevealedKeys -> 1
      [] value = TooManyRevealedAccounts -> 2

-----------------------------------------------------------------------------
(* Leaf codec: the SCALE encoding the derives of the key and value types     *)
(* produce.  A tuple struct encodes as the concatenation of its fields, an   *)
(* enum as its variant index followed by the variant's fields, a byte        *)
(* vector as its compact length followed by its bytes, a fixed-width array   *)
(* as its bytes, a unit struct as nothing.                                   *)

\* Compact<u32> of a length below 64: one byte, the length shifted left by 2
EncodeCompactLen(n) == <<(n * 4) % 256>>

EncodeU8(n) == <<n % 256>>

EncodeFixedBytes(bytes) == bytes

EncodeByteVec(bytes) == EncodeCompactLen(Len(bytes)) \o bytes

VerificationRelationshipIndex(rel) ==
    CASE rel = "Authentication" -> 0
      [] rel = "CapabilityDelegation" -> 1
      [] rel = "CapabilityInvocation" -> 2
      [] rel = "AssertionMethod" -> 3

EncodeDidKeyRelationship(relationship) ==
    IF relationship.variant = "Encryption"
    THEN <<0>>
    ELSE <<1>> \o <<VerificationRelationshipIndex(relationship.rel)>>

EncodeDidKeyMerkleKey(key) ==
    EncodeFixedBytes(key.id) \o EncodeDidKeyRelationship(key.relationship)

EncodeWeb3NameMerkleKey(key) == EncodeByteVec(key.web3_name)

EncodeLinkedAccountMerkleKey(key) == EncodeFixedBytes(key.account)

\* DidPublicKeyDetails {key, block_number}
EncodeDidPublicKeyDetails(details) ==
    EncodeU8(details.key) \o EncodeU8(details.block_number)

EncodeDidKeyMerkleValue(value) == EncodeDidPublicKeyDetails(value.details)

EncodeWeb3NameMerkleValue(value) == EncodeU8(value.claimed_at)

EncodeLinkedAccountMerkleValue(value) == <<>>

encoded_key(leaf) ==
    CASE leaf.kind = "DidKey" -> EncodeDidKeyMerkleKey(leaf.key)
      [] leaf.kind = "Web3Name" -> EncodeWeb3NameMerkleKey(leaf.key)
      [] leaf.kind = "LinkedAccount" -> EncodeLinkedAccountMerkleKey(leaf.key)

encoded_value(leaf) ==
    CASE leaf.kind = "DidKey" -> EncodeDidKeyMerkleValue(leaf.value)
      [] leaf.kind = "Web3Name" -> EncodeWeb3NameMerkleValue(leaf.value)
      [] leaf.kind = "LinkedAccount" -> EncodeLinkedAccountMerkleValue(leaf.value)

\* the pairs handed to the trie check with the LinkedAccount leaves, which
\* have an empty value, left out
ProofLeaves_skipping_accounts(revealed) ==
    LET checked == SelectSeq(revealed, LAMBDA leaf : leaf.kind # "LinkedAccount")
    IN  [i \in 1..Len(checked) |->
            <<encoded_key(checked[i]), Some(encoded_value(checked[i]))>>]

\* the pairs handed to the trie check with no value claimed
ProofLeaves_without_value(revealed) ==
    [i \in 1..Len(revealed) |-> <<encoded_key(revealed[i]), None>>]

\* proof.revealed mapped to (encoded_key, Some(encoded_value)) and collected
ProofLeaves(revealed) ==
    [i \in 1..Len(revealed) |->
        <<encoded_key(revealed[i]), Some(encoded_value(revealed[i]))>>]

-----------------------------------------------------------------------------
(* Trie proof verifier (sp_trie::verify_trie_proof, a dependency: modelled   *)
(* from its contract).  The trie is keyed by the bytes of the encoded key,   *)
(* one node per key prefix; a node holds its path, the value stored there,   *)
(* if any, and the hash of each child.  The hash is collision free.  A proof *)
(* node on the path of a revealed key does not carry the value of that key:  *)
(* the verifier puts the claimed value in and recomputes the hash.           *)

Hash(node) == [hash_of |-> node]

\* a blinded value that does not decode to a node
Malformed == [malformed |-> TRUE]

\* the value of a proof node whose value the revealed leaf supplies
Omitted == [omitted |-> TRUE]

IsPrefix(p, k) == Len(p) <= Len(k) /\ \A i \in 1..Len(p) : p[i] = k[i]

RECURSIVE TrieNode(_, _)
TrieNode(kv, prefix) ==
    LET here == {e \in kv : e[1] = prefix}
        below == {e \in kv : Len(e[1]) > Len(prefix) /\ IsPrefix(prefix, e[1])}
    IN  [path |-> prefix,
         value |-> IF here = {} THEN None ELSE Some((CHOOSE e \in here : TRUE)[2]),
         children |-> [s \in {e[1][Len(prefix) + 1] : e \in below} |->
                          Hash(TrieNode(kv, prefix \o <<s>>))]]

\* the proof node with the value claimed for its path put in
Filled(node, items) ==
    LET claimed == {i \in 1..Len(items) : items[i][1] = node.path}
    IN  IF node.value = Omitted /\ claimed # {}
        THEN [node EXCEPT !.value = items[CHOOSE i \in claimed : TRUE][2]]
        ELSE node

\* the proof nodes that recompute to `hash`
Resolve(nodes, items, hash) ==
    {n \in nodes : n # Malformed /\ Hash(Filled(n, items)) = hash}

\* the nodes met when walking the rest of a key, `key`, down from the node hashed `hash`
RECURSIVE PathNodes(_, _, _, _)
PathNodes(nodes, items, hash, key) ==
    LET found == Resolve(nodes, items, hash)
    IN  IF found = {} THEN {}
        ELSE LET node == CHOOSE n \in found : TRUE
             IN  IF key # <<>> /\ Head(key) \in DOMAIN node.children
                 THEN {node} \cup PathNodes(nodes, items, node.children[Head(key)], Tail(key))
                 ELSE {node}

\* whether the walk of the rest of a key, `key`, down from the node hashed
\* `hash` ends at a node that takes its value from the revealed leaf
RECURSIVE PathVerifies(_, _, _, _)
PathVerifies(nodes, items, hash, key) ==
    LET found == Resolve(nodes, items, hash)
    IN  IF found = {} THEN FALSE
        ELSE LET node == CHOOSE n \in found : TRUE
             IN  IF key = <<>> THEN node.value = Omitted
                 ELSE IF Head(key) \in DOMAIN node.children
                      THEN PathVerifies(nodes, items, node.children[Head(key)], Tail(key))
                      ELSE FALSE

\* a check that looks at the encoding of the nodes only
verify_trie_proof_decode_only(root, proof_nodes, items) ==
    IF Malformed \notin Range(proof_nodes) THEN Ok(<<>>) ELSE Err("VerifyError")

\* Fails on a node that does not decode, on a key given twice, on a pair whose
\* path is incomplete, recomputes to another hash or ends in another value,
\* and on a node that no path uses.  The order of the nodes is not looked at.
verify_trie_proof(root, proof_nodes, items) ==
    LET nodes == Range(proof_nodes)
        used == UNION {PathNodes(nodes, items, root, items[i][1]) : i \in 1..Len(items)}
    IN  IF /\ Malformed \notin nodes
           /\ \A i, j \in 1..Len(items) : items[i][1] = items[j][1] => i = j
           /\ \A i \in 1..Len(items) : PathVerifies(nodes, items, root, items[i][1])
           /\ used = nodes
           /\ Cardinality(nodes) = Len(proof_nodes)
        THEN Ok(<<>>)
        ELSE Err("VerifyError")

-----------------------------------------------------------------------------
(* Proof producer (outside the verifier): the trie of an identity's leaves,  *)
(* its root, and the proof that reveals a list of leaves: the nodes on the   *)
(* paths of their keys.                                                      *)

KeyValuePairs(leaves) == {<<encoded_key(l), encoded_value(l)>> : l \in leaves}

TrieRoot(leaves) == Hash(TrieNode(KeyValuePairs(leaves), <<>>))

\* the prefixes of the key, shortest first, as far as the trie has a node
PathPrefixes(kv, key) ==
    LET exists(p) == p = <<>> \/ \E e \in kv : IsPrefix(p, e[1])
        last == CHOOSE n \in 0..Len(key) :
                    /\ exists(SubSeq(key, 1, n))
                    /\ n < Len(key) => ~exists(SubSeq(key, 1, n + 1))
    IN  [i \in 1..(last + 1) |-> SubSeq(key, 1, i - 1)]

RECURSIVE Dedup(_)
Dedup(s) ==
    IF s = <<>> THEN <<>>
    ELSE LET init == Dedup(SubSeq(s, 1, Len(s) - 1))
         IN  IF s[Len(s)] \in Range(init) THEN init ELSE Append(init, s[Len(s)])

RECURSIVE RevealedPrefixes(_, _)
RevealedPrefixes(kv, revealed) ==
    IF revealed = <<>> THEN <<>>
    ELSE PathPrefixes(kv, encoded_key(Head(revealed)))
            \o RevealedPrefixes(kv, Tail(revealed))

\* the node of the trie at the prefix as the proof carries it: without its
\* value when the prefix is the key of a revealed leaf
ProofNode(kv, prefix, revealed) ==
    IF \E i \in 1..Len(revealed) : encoded_key(revealed[i]) = prefix
    THEN [TrieNode(kv, prefix) EXCEPT !.value = Omitted]
    ELSE TrieNode(kv, prefix)

generate_proof(leaves, revealed) ==
    LET kv == KeyValuePairs(leaves)
        prefixes == Dedup(RevealedPrefixes(kv, revealed))
    IN  [blinded |-> [i \in 1..Len(prefixes) |-> ProofNode(kv, prefixes[i], revealed)],
         revealed |-> revealed]

-----------------------------------------------------------------------------
(* The calls the model makes *)

KeyDetails == [key |-> 7, block_number |-> 1]

LaterKeyDetails == [key |-> 7, block_number |-> 2]

EncryptionKey == DidKey(<<4>>, Encryption, KeyDetails)

AuthenticationKey == DidKey(<<4>>, Verification("Authentication"), LaterKeyDetails)

FirstName == Web3Name(<<0>>, 1)

SecondName == Web3Name(<<1>>, 2)

FirstAccount == LinkedAccount(<<0, 0>>)

SecondAccount == LinkedAccount(<<1, 0>>)

\* the leaves a submitted proof reveals
Leaves ==
    {EncryptionKey, AuthenticationKey, FirstName, SecondName, FirstAccount, SecondAccount}

\* the leaves a revealed leaf can be changed into
ForgedLeaves ==
    {DidKey(id, rel, d) : id \in {<<4>>, <<5>>},
                          rel \in {Encryption, Verification("Authentication")},
                          d \in {KeyDetails, LaterKeyDetails}}
    \cup {Web3Name(n, b) : n \in {<<0>>, <<1>>}, b \in {1, 2}}
    \cup {LinkedAccount(a) : a \in {<<0, 0>>, <<1, 0>>}}

\* the identities committed: each holds one value per key
Identities ==
    { {},
      {EncryptionKey, AuthenticationKey, SecondName, FirstAccount, SecondAccount},
      {AuthenticationKey, FirstName, SecondName, FirstAccount} }

RevealedLists == UNION {[1..n -> Leaves] : n \in 0..MaxRevealed}

Capacities == 0..MaxCapacity

\* the two byte strings have the same length and differ in exactly one byte
OneByteApart(a, b) ==
    /\ Len(a) = Len(b)
    /\ Cardinality({i \in 1..Len(a) : a[i] # b[i]}) = 1

\* `forged` is `leaf` with one byte of its encoded key or value changed
OneByteChanged(leaf, forged) ==
    \/ /\ OneByteApart(encoded_key(leaf), encoded_key(forged))
       /\ encoded_value(leaf) = encoded_value(forged)
    \/ /\ encoded_key(leaf) = encoded_key(forged)
       /\ OneByteApart(encoded_value(leaf), encoded_value(forged))

\* a node with one byte changed that still decodes
AlteredNode(node) ==
    [node EXCEPT !.value = IF node.value = Some(<<255>>) THEN Some(<<254>>) ELSE Some(<<255>>)]

ExtraNode == [path |-> <<255>>, value |-> Some(<<255>>), children |-> <<>>]

Reverse(s) == [i \in 1..Len(s) |-> s[Len(s) + 1 - i]]

Untouched == [mode |-> "none", at |-> 0, leaf |-> FirstAccount]

\* the changes made to a proof the producer generated for `root`: a proof
\* that verifies is submitted as it is or with one change, any other as it is
Tampers(root, p) ==
    IF ~verify_trie_proof(root, p.blinded, ProofLeaves(p.revealed)).is_ok
    THEN {Untouched}
    ELSE {Untouched}
         \cup {[mode |-> m, at |-> i, leaf |-> FirstAccount] :
                 m \in {"drop_node", "malformed_node", "altered_node"},
                 i \in 1..Len(p.blinded)}
         \cup {[mode |-> "extra_node", at |-> 0, leaf |-> FirstAccount]}
         \cup {[mode |-> "reversed_nodes", at |-> 0, leaf |-> FirstAccount]}
         \cup UNION {{[mode |-> "changed_leaf", at |-> i, leaf |-> l] :
                         l \in {f \in ForgedLeaves : OneByteChanged(p.revealed[i], f)}} :
                      i \in 1..Len(p.revealed)}

Tampered(p, t) ==
    CASE t.mode = "none" -> p
      [] t.mode = "drop_node" ->
            [p EXCEPT !.blinded = SubSeq(p.blinded, 1, t.at - 1)
                                     \o SubSeq(p.blinded, t.at + 1, Len(p.blinded))]
      [] t.mode = "malformed_node" -> [p EXCEPT !.blinded[t.at] = Malformed]
      [] t.mode = "altered_node" -> [p EXCEPT !.blinded[t.at] = AlteredNode(@)]
      [] t.mode = "extra_node" -> [p EXCEPT !.blinded = Append(@, ExtraNode)]
      [] t.mode = "reversed_nodes" -> [p EXCEPT !.blinded = Reverse(@)]
      [] t.mode = "changed_leaf" -> [p EXCEPT !.revealed[t.at] = t.leaf]

-----------------------------------------------------------------------------
(* verify_dip_merkle_proof *)

\* try_push with the bound checked one element too late
try_push_off_by_one(vec, element, bound) ==
    IF Len(vec) <= bound THEN Ok(Append(vec, element)) ELSE Err(element)

\* try_push that drops the element of a full vector and reports success
try_push_truncating(vec, element, bound) ==
    IF Len(vec) < bound THEN Ok(Append(vec, element)) ELSE Ok(vec)

\* try_push that puts the element in front
try_push_front(vec, element, bound) ==
    IF Len(vec) < bound THEN Ok(<<element>> \o vec) ELSE Err(element)

\* BoundedVec::try_push: the vector with the element appended, or the element
\* back when the vector is at its bound
try_push(vec, element, bound) ==
    IF Len(vec) < bound THEN Ok(Append(vec, element)) ELSE Err(element)

\* the key fact pushed for a DidKey leaf
DidKeyEntry(leaf) ==
    RevealedDidKey(leaf.key.id, leaf.key.relationship, leaf.value.details)

\* the name claim stored for a Web3Name leaf
Web3NameEntry(leaf) == RevealedWeb3Name(leaf.key.web3_name, leaf.value.claimed_at)

\* the account pushed for a LinkedAccount leaf
LinkedAccountEntry(leaf) == leaf.key.account

InitWith(features) ==
    /\ committed \in Identities
    /\ identity_commitment = TrieRoot(committed)
    /\ \E revealed \in RevealedLists :
          LET produced == generate_proof(committed, revealed)
          IN  /\ tamper \in Tampers(identity_commitment, produced)
              /\ proof = Tampered(produced, tamper)
    /\ runtime_benchmarks \in features
    /\ MAX_REVEALED_KEYS_COUNT \in Capacities
    /\ MAX_REVEALED_ACCOUNTS_COUNT \in Capacities
    /\ pc = "start"
    /\ proof_leaves = <<>>
    /\ res = None
    /\ revealed_iter = <<>>
    /\ keys = <<>>
    /\ web3_name = None
    /\ linked_accounts = <<>>
    /\ result = None

\* the crate built with its default features
Init == InitWith({FALSE})

\* the crate built with or without the runtime-benchmarks feature
InitAnyBuild == InitWith(BOOLEAN)

\* the trie check with its outcome dropped
VerifyTrieProof_unchecked ==
    /\ pc = "start"
    /\ proof_leaves' = ProofLeaves(proof.revealed)
    /\ res' = verify_trie_proof(identity_commitment, proof.blinded, ProofLeaves(proof.revealed))
    /\ pc' = "fold"
    /\ revealed_iter' = proof.revealed
    /\ keys' = <<>>
    /\ web3_name' = None
    /\ linked_accounts' = <<>>
    /\ UNCHANGED <<runtime_benchmarks, MAX_REVEALED_KEYS_COUNT, MAX_REVEALED_ACCOUNTS_COUNT,
                   identity_commitment, proof, committed, tamper, result>>

\* the trie check, and the start of the fold when it passes
VerifyTrieProof ==
    /\ pc = "start"
    /\ LET leaves == ProofLeaves(proof.revealed)
           checked == verify_trie_proof(identity_commitment, proof.blinded, leaves)
       IN  /\ proof_leaves' = leaves
           /\ res' = checked
           /\ IF ~runtime_benchmarks /\ ~checked.is_ok
              THEN /\ result' = Err(InvalidMerkleProof)
                   /\ pc' = "returned"
                   /\ UNCHANGED <<revealed_iter, keys, web3_name, linked_accounts>>
              ELSE /\ pc' = "fold"
                   /\ revealed_iter' = proof.revealed
                   /\ keys' = <<>>
                   /\ web3_name' = None
                   /\ linked_accounts' = <<>>
                   /\ UNCHANGED result
    /\ UNCHANGED <<runtime_benchmarks, MAX_REVEALED_KEYS_COUNT, MAX_REVEALED_ACCOUNTS_COUNT,
                   identity_commitment, proof, committed, tamper>>

\* the closure on a DidKey leaf unwrapping the result of try_push
FoldDidKey_unwrapping ==
    /\ pc = "fold"
    /\ revealed_iter # <<>>
    /\ Head(revealed_iter).kind = "DidKey"
    /\ LET pushed == try_push(keys, DidKeyEntry(Head(revealed_iter)), MAX_REVEALED_KEYS_COUNT)
       IN  /\ revealed_iter' = Tail(revealed_iter)
           /\ keys' = IF pushed.is_ok THEN pushed.value ELSE keys
           /\ pc' = IF pushed.is_ok THEN pc ELSE "panicked"
    /\ UNCHANGED <<runtime_benchmarks, MAX_REVEALED_KEYS_COUNT, MAX_REVEALED_ACCOUNTS_COUNT,
                   identity_commitment, proof, committed, tamper, proof_leaves,
                   res, web3_name, linked_accounts, result>>

\* the fold's closure on a DidKey leaf
FoldDidKey ==
    /\ pc = "fold"
    /\ revealed_iter # <<>>
    /\ Head(revealed_iter).kind = "DidKey"
    /\ LET pushed == try_push(keys, DidKeyEntry(Head(revealed_iter)), MAX_REVEALED_KEYS_COUNT)
       IN  /\ revealed_iter' = Tail(revealed_iter)
           /\ keys' = IF pushed.is_ok THEN pushed.value ELSE keys
           /\ IF ~runtime_benchmarks /\ ~pushed.is_ok
              THEN /\ result' = Err(TooManyRevealedKeys)
                   /\ pc' = "returned"
              ELSE UNCHANGED <<result, pc>>
    /\ UNCHANGED <<runtime_benchmarks, MAX_REVEALED_KEYS_COUNT, MAX_REVEALED_ACCOUNTS_COUNT,
                   identity_commitment, proof, committed, tamper, proof_leaves,
                   res, web3_name, linked_accounts>>

\* the closure on a Web3Name leaf keeping the name it already holds
FoldWeb3Name_keep_first ==
    /\ pc = "fold"
    /\ revealed_iter # <<>>
    /\ Head(revealed_iter).kind = "Web3Name"
    /\ revealed_iter' = Tail(revealed_iter)
    /\ web3_name' = IF web3_name = None THEN Some(Web3NameEntry(Head(revealed_iter)))
                                        ELSE web3_name
    /\ UNCHANGED <<runtime_benchmarks, MAX_REVEALED_KEYS_COUNT, MAX_REVEALED_ACCOUNTS_COUNT,
                   identity_commitment, proof, committed, tamper, proof_leaves,
                   res, keys, linked_accounts, result, pc>>

\* the fold's closure on a Web3Name leaf
FoldWeb3Name ==
    /\ pc = "fold"
    /\ revealed_iter # <<>>
    /\ Head(revealed_iter).kind = "Web3Name"
    /\ revealed_iter' = Tail(revealed_iter)
    /\ web3_name' = Some(Web3NameEntry(Head(revealed_iter)))
    /\ UNCHANGED <<runtime_benchmarks, MAX_REVEALED_KEYS_COUNT, MAX_REVEALED_ACCOUNTS_COUNT,
                   identity_commitment, proof, committed, tamper, proof_leaves,
                   res, keys, linked_accounts, result, pc>>

\* the closure on a LinkedAccount leaf reporting the error of the DidKey arm
FoldLinkedAccount_keys_error ==
    /\ pc = "fold"
    /\ revealed_iter # <<>>
    /\ Head(revealed_iter).kind = "LinkedAccount"
    /\ LET pushed == try_push(linked_accounts, LinkedAccountEntry(Head(revealed_iter)),
                              MAX_REVEALED_ACCOUNTS_COUNT)
       IN  /\ revealed_iter' = Tail(revealed_iter)
           /\ linked_accounts' = IF pushed.is_ok THEN pushed.value ELSE linked_accounts
           /\ IF ~runtime_benchmarks /\ ~pushed.is_ok
              THEN /\ result' = Err(TooManyRevealedKeys)
                   /\ pc' = "returned"
              ELSE UNCHANGED <<result, pc>>
    /\ UNCHANGED <<runtime_benchmarks, MAX_REVEALED_KEYS_COUNT, MAX_REVEALED_ACCOUNTS_COUNT,
                   identity_commitment, proof, committed, tamper, proof_leaves,
                   res, keys, web3_name>>

\* the fold's closure on a LinkedAccount leaf
FoldLinkedAccount ==
    /\ pc = "fold"
    /\ revealed_iter # <<>>
    /\ Head(revealed_iter).kind = "LinkedAccount"
    /\ LET pushed == try_push(linked_accounts, LinkedAccountEntry(Head(revealed_iter)),
                              MAX_REVEALED_ACCOUNTS_COUNT)
       IN  /\ revealed_iter' = Tail(revealed_iter)
           /\ linked_accounts' = IF pushed.is_ok THEN pushed.value ELSE linked_accounts
           /\ IF ~runtime_benchmarks /\ ~pushed.is_ok
              THEN /\ result' = Err(TooManyRevealedAccounts)
                   /\ pc' = "returned"
              ELSE UNCHANGED <<result, pc>>
    /\ UNCHANGED <<runtime_benchmarks, MAX_REVEALED_KEYS_COUNT, MAX_REVEALED_ACCOUNTS_COUNT,
                   identity_commitment, proof, committed, tamper, proof_leaves,
                   res, keys, web3_name>>

\* the end of a fold that takes a result with nothing revealed for a failure
ReturnLeaves_rejecting_empty ==
    /\ pc = "fold"
    /\ revealed_iter = <<>>
    /\ result' = IF keys = <<>> /\ web3_name = None /\ linked_accounts = <<>>
                 THEN Err(InvalidMerkleProof)
                 ELSE Ok(RevealedDidMerkleProofLeaves(keys, web3_name, linked_accounts))
    /\ pc' = "returned"
    /\ UNCHANGED <<runtime_benchmarks, MAX_REVEALED_KEYS_COUNT, MAX_REVEALED_ACCOUNTS_COUNT,
                   identity_commitment, proof, committed, tamper, proof_leaves,
                   res, revealed_iter, keys, web3_name, linked_accounts>>

\* the end of the fold
ReturnLeaves ==
    /\ pc = "fold"
    /\ revealed_iter = <<>>
    /\ result' = Ok(RevealedDidMerkleProofLeaves(keys, web3_name, linked_accounts))
    /\ pc' = "returned"
    /\ UNCHANGED <<runtime_benchmarks, MAX_REVEALED_KEYS_COUNT, MAX_REVEALED_ACCOUNTS_COUNT,
                   identity_commitment, proof, committed, tamper, proof_leaves,
                   res, revealed_iter, keys, web3_name, linked_accounts>>

Next ==
    \/ VerifyTrieProof
    \/ FoldDidKey
    \/ FoldWeb3Name
    \/ FoldLinkedAccount
    \/ ReturnLeaves

Spec == Init /\ [][Next]_vars

SpecAnyBuild == InitAnyBuild /\ [][Next]_vars

-----------------------------------------------------------------------------
(* What the claims speak of *)

Returned == pc = "returned"

\* the trie check of the submitted proof was made and passed
TrieCheckPassed == pc # "start" /\ res.is_ok

\* the trie check of the submitted proof was made and failed
TrieCheckFailed == pc # "start" /\ ~res.is_ok

CountKind(leaves, kind) == Cardinality({i \in 1..Len(leaves) : leaves[i].kind = kind})

\* the position of the n-th leaf of the kind, 0 when there are fewer
NthOfKind(leaves, kind, n) ==
    LET at == {i \in 1..Len(leaves) :
                  leaves[i].kind = kind /\ CountKind(SubSeq(leaves, 1, i), kind) = n}
    IN  IF at = {} THEN 0 ELSE CHOOSE i \in at : TRUE

\* the position of the DidKey leaf that does not fit, 0 when all fit
KeyOverflowAt == NthOfKind(proof.revealed, "DidKey", MAX_REVEALED_KEYS_COUNT + 1)

\* the position of the LinkedAccount leaf that does not fit, 0 when all fit
AccountOverflowAt ==
    NthOfKind(proof.revealed, "LinkedAccount", MAX_REVEALED_ACCOUNTS_COUNT + 1)

\* the number of leaves the fold has taken from the iterator
Consumed == Len(proof.revealed) - Len(revealed_iter)

-----------------------------------------------------------------------------
(* C1 *)

-----------------------------------------------------------------------------
(* C2 *)

-----------------------------------------------------------------------------
(* C3 *)

-----------------------------------------------------------------------------
(* C4 *)

OfKind(leaves, kind) == SelectSeq(leaves, LAMBDA leaf : leaf.kind = kind)

\* C4 as stated: a returned result holds as many did_keys as the proof has
\* DidKey leaves and as many linked_accounts as it has LinkedAccount leaves,
\* and a call on a proof that breaks a bound returns an error, which carries
\* none of the entries accumulated.
C4_AllOrNothing ==
    Returned =>
        /\ result.is_ok =>
              /\ Len(result.value.did_keys) = CountKind(proof.revealed, "DidKey")
              /\ Len(result.value.linked_accounts) = CountKind(proof.revealed, "LinkedAccount")
        /\ (KeyOverflowAt # 0 \/ AccountOverflowAt # 0) =>
              result \in {Err(InvalidMerkleProof), Err(TooManyRevealedKeys),
                          Err(TooManyRevealedAccounts)}

\* C4 amended: in a build without the runtime-benchmarks feature, a returned
\* result holds as many did_keys as the proof has DidKey leaves and as many
\* linked_accounts as it has LinkedAccount leaves, and a call on a proof that
\* breaks a bound returns an error, which carries none of the entries
\* accumulated.
C4_AllOrNothingWithoutBenchmarks ==
    ~runtime_benchmarks => C4_AllOrNothing

\* a call of the default build that accumulated a key and then failed on an
\* account past a bound of zero
C4_Witness ==
    /\ ~runtime_benchmarks
    /\ Returned
    /\ TrieCheckPassed
    /\ Len(keys) = 1
    /\ AccountOverflowAt = 2
    /\ result = Err(TooManyRevealedAccounts)

-----------------------------------------------------------------------------
(* C5 *)

-----------------------------------------------------------------------------
(* C6 *)

\* C6: in a returned result web3_name is None when the proof reveals no
\* Web3Name leaf, and otherwise the name and claimed_at of the last Web3Name
\* leaf in proof order; the earlier ones raise no error.
C6_LastNameWins ==
    (Returned /\ result.is_ok) =>
        LET name_leaves == OfKind(proof.revealed, "Web3Name")
        IN  result.value.web3_name =
                IF name_leaves = <<>> THEN None
                ELSE Some([web3_name |-> name_leaves[Len(name_leaves)].key.web3_name,
                           claimed_at |-> name_leaves[Len(name_leaves)].value.claimed_at])

\* a result for a proof that reveals two names, the second of them the one
\* with the smaller encoded key
C6_Witness ==
    /\ Returned
    /\ result.is_ok
    /\ proof.revealed = <<SecondName, FirstName>>
    /\ result.value.web3_name = Some(RevealedWeb3Name(<<0>>, 1))

-----------------------------------------------------------------------------
(* C7 *)

-----------------------------------------------------------------------------
(* C8 *)

\* the proof is the producer's, for distinct leaves of the committed identity
HonestProof ==
    /\ tamper = Untouched
    /\ Range(proof.revealed) \subseteq committed
    /\ \A i, j \in 1..Len(proof.revealed) : proof.revealed[i] = proof.revealed[j] => i = j

\* C8: a call on the producer's proof for a subset of the committed leaves
\* with no more DidKey and LinkedAccount leaves than the bounds allow returns
\* a result; its did_keys and linked_accounts are those of the subset, each
\* once, and its web3_name is one of the subset, if it has any.
C8_Soundness ==
    (/\ Returned
     /\ HonestProof
     /\ CountKind(proof.revealed, "DidKey") <= MAX_REVEALED_KEYS_COUNT
     /\ CountKind(proof.revealed, "LinkedAccount") <= MAX_REVEALED_ACCOUNTS_COUNT)
        => /\ result.is_ok
           /\ LET S == Range(proof.revealed)
                  did_key_leaves == {leaf \in S : leaf.kind = "DidKey"}
                  name_leaves == {leaf \in S : leaf.kind = "Web3Name"}
                  account_leaves == {leaf \in S : leaf.kind = "LinkedAccount"}
              IN  /\ Range(result.value.did_keys) = {DidKeyEntry(leaf) : leaf \in did_key_leaves}
                  /\ Len(result.value.did_keys) = Cardinality(did_key_leaves)
                  /\ Range(result.value.linked_accounts) =
                        {LinkedAccountEntry(leaf) : leaf \in account_leaves}
                  /\ Len(result.value.linked_accounts) = Cardinality(account_leaves)
                  /\ result.value.web3_name \in
                        IF name_leaves = {} THEN {None}
                        ELSE {Some(Web3NameEntry(leaf)) : leaf \in name_leaves}

\* a result for the producer's proof of a key, a name and an account of an
\* identity that holds more
C8_Witness ==
    /\ Returned
    /\ HonestProof
    /\ Cardinality(committed) = 5
    /\ Range(proof.revealed) = {AuthenticationKey, SecondName, SecondAccount}
    /\ result.is_ok

-----------------------------------------------------------------------------
(* C9 *)

\* C9: two leaves of a proof that differ in kind, or in the key part of the
\* same kind, never have the same encoded key among the pairs handed to the
\* trie check.
C9_EncodedKeyInjective ==
    pc # "start" =>
        \A i, j \in 1..Len(proof.revealed) :
            (\/ proof.revealed[i].kind # proof.revealed[j].kind
             \/ proof.revealed[i].key # proof.revealed[j].key)
                => proof_leaves[i][1] # proof_leaves[j][1]

-----------------------------------------------------------------------------
(* C10 *)

\* one byte of a node, or of the encoded key or value of a leaf, was changed
\* in a proof that verifies
OneByteTampered == tamper.mode \in {"altered_node", "malformed_node", "changed_leaf"}

-----------------------------------------------------------------------------
(* C13 *)

\* the producer's proof that reveals nothing of an identity that holds nothing
EmptyProofOfEmptyIdentity ==
    /\ committed = {}
    /\ tamper = Untouched
    /\ proof.revealed = <<>>
    /\ proof.blinded = <<>>

\* C13: a call on the proof that reveals no leaf, against the commitment of
\* an identity with no leaf, returns a result with no did_keys, no web3_name
\* and no linked_accounts, whatever the two bounds are.
C13_EmptyProofSucceeds ==
    (Returned /\ EmptyProofOfEmptyIdentity)
        => result = Ok([did_keys |-> <<>>, web3_name |-> None, linked_accounts |-> <<>>])

\* a call on the empty proof with both bounds at zero that returned a result
C13_Witness ==
    /\ Returned
    /\ EmptyProofOfEmptyIdentity
    /\ MAX_REVEALED_KEYS_COUNT = 0
    /\ MAX_REVEALED_ACCOUNTS_COUNT = 0
    /\ result.is_ok

-----------------------------------------------------------------------------
(* C14 *)

\* C14: an error the call returns is InvalidMerkleProof, TooManyRevealedKeys
\* or TooManyRevealedAccounts, and its conversion to u8 gives 0 for the
\* first, 1 for the second and 2 for the third, a different code for each.
C14_ErrorCodes ==
    (Returned /\ ~result.is_ok) =>
        \/ result.error = "InvalidMerkleProof" /\ u8_from(result.error) = 0
        \/ result.error = "TooManyRevealedKeys" /\ u8_from(result.error) = 1
        \/ result.error = "TooManyRevealedAccounts" /\ u8_from(result.error) = 2

\* a call that returned the error converted to the code 2
C14_Witness ==
    /\ Returned
    /\ ~result.is_ok
    /\ result.error = "TooManyRevealedAccounts"
    /\ u8_from(result.error) = 2

-----------------------------------------------------------------------------
(* C15 *)

\* the steps the call has left at most: the trie check, one per leaf still
\* in the iterator, and the return
StepsLeft ==
    CASE pc = "start" -> Len(proof.revealed) + 2
      [] pc = "fold" -> Len(revealed_iter) + 1
      [] OTHER -> 0

\* C15: on every commitment, list of nodes and list of revealed leaves, every
\* step of the call brings the return closer and ends either in the return of
\* a result or of one of the three errors, or in the fold with the iterator
\* empty or at a leaf of one of the three kinds the closure has an arm for:
\* the call started is never left without a step before it has returned.
C15_Total ==
    [][/\ StepsLeft' < StepsLeft
       /\ pc' \in {"fold", "returned"}
       /\ pc' = "fold" => (revealed_iter' = <<>> \/ Head(revealed_iter').kind \in
                               {"DidKey", "Web3Name", "LinkedAccount"})
       /\ pc' = "returned" =>
             \/ result'.is_ok
             \/ result' \in {Err(InvalidMerkleProof), Err(TooManyRevealedKeys),
                             Err(TooManyRevealedAccounts)}]_vars

\* a call that returned on a proof with a node missing after taking every
\* step it had
C15_Witness ==
    /\ Returned
    /\ tamper.mode = "drop_node"
    /\ proof.revealed # <<>>
    /\ StepsLeft = 0
    /\ result = Err(InvalidMerkleProof)

-----------------------------------------------------------------------------
(* C16 *)

-----------------------------------------------------------------------------
(* C17 *)

-----------------------------------------------------------------------------
(* C18 *)

====
